---- MODULE Spec2Model ----
(***************************************************************************)
(* Voxel terrain pipeline of thohui/craft: height field (src/noise.rs),    *)
(* chunk population and face-culled meshing (src/chunk.rs), quad geometry  *)
(* and atlas lookup (src/renderer/block.rs), chunk list merge and cache    *)
(* (src/chunk.rs).                                                         *)
(*                                                                         *)
(* Number representation.  f32 positions are whole numbers in every run    *)
(* modelled here and are kept as integers.  Terrain heights are f32 with   *)
(* fractions: a height h is kept as the integer 4*h (quarter units), and   *)
(* the f32 arithmetic of src/noise.rs rounds and overflows in a format     *)
(* scaled down from f32 (F32_DIGITS, F32_MAX).                             *)
(* Texture coordinates are kept as numerators over ATLAS_SIZE.  Vertex     *)
(* counts stay far below 2^32, so the u32 casts of add_face and            *)
(* merge_meshes are the identity.                                          *)
(* Option<T> is a sequence: <<>> is None, <<v>> is Some(v).                *)
(***************************************************************************)
EXTENDS Integers, Sequences, FiniteSets, TLC

VARIABLES pc, height_map, lookups, chunks, spare, calculated_mesh, ret, added

vars == <<pc, height_map, lookups, chunks, spare, calculated_mesh, ret, added>>

(* ---------------------------------------------------------------- bounds *)
\* chunk.rs:16-18 set 32; the chunk is scaled down here.
CHUNK_WIDTH == 2
CHUNK_HEIGHT == 3
CHUNK_DEPTH == 2
\* generate_chunks(chunk_count): game.rs:58 passes 16.
MaxChunkCount == 2
\* chunk.rs:148 sets height_max = 15.0; scaled down here, below CHUNK_HEIGHT.
HEIGHT_MAX == 2
\* add_chunk calls with a newly constructed chunk.
MaxAdded == 1
\* length of the run of voxels in a grid handed to generate_mesh.
MaxSolid == 2

\* seeds of the noise function (chunk.rs:145 uses 1234).
Seeds == {1234, 1235}
\* how many of the last chunks of generate_chunks the caller keeps back for later
\* add_chunk calls.
SpareCounts == {0, 1}
\* positions used for Chunk::new and for lookups.
Positions == {<<0, 0, 0>>, <<1, 0, 0>>}

(* ------------------------------------------------------------- block.rs *)
ATLAS_SIZE == 256
BLOCK_SIZE == 16

BlockType == {"Dirt", "Grass", "Stone", "Air"}
Face == {"Top", "Bottom", "Left", "Right", "Front", "Back"}

None == <<>>
Some(v) == <<v>>

\* Block::new
Block(block_type, position) == [block_type |-> block_type, position |-> position]

\* an is_air that takes Dirt for Air too
is_air_DirtToo(block) == block.block_type \in {"Air", "Dirt"}

\* Block::is_air
is_air(block) == block.block_type = "Air"

\* TerrainMesh::new
TerrainMeshNew == [vertices |-> <<>>, indices |-> <<>>]

\* combine
combine(a, b) == <<a[1] + b[1], a[2] + b[2], a[3] + b[3]>>

BlockVertex(position, tex_coords) == [position |-> position, tex_coords |-> tex_coords]

\* The four corner offsets of each BlockQuad constructor, in vertex order.
QuadTemplate(face) ==
  CASE face = "Top"    -> << <<-1, 1, -1>>,  <<1, 1, -1>>,  <<1, 1, 1>>,  <<-1, 1, 1>> >>
    [] face = "Bottom" -> << <<-1, -1, -1>>, <<1, -1, -1>>, <<1, -1, 1>>, <<-1, -1, 1>> >>
    [] face = "Left"   -> << <<-1, -1, -1>>, <<-1, 1, -1>>, <<-1, 1, 1>>, <<-1, -1, 1>> >>
    [] face = "Right"  -> << <<1, -1, -1>>,  <<1, 1, -1>>,  <<1, 1, 1>>,  <<1, -1, 1>> >>
    [] face = "Front"  -> << <<-1, -1, -1>>, <<1, -1, -1>>, <<1, 1, -1>>, <<-1, 1, -1>> >>
    [] face = "Back"   -> << <<-1, -1, 1>>,  <<1, -1, 1>>,  <<1, 1, 1>>,  <<-1, 1, 1>> >>

\* BlockQuad::top / bottom / left / right / front / back
BlockQuad(face, tex_coords, position) ==
  [k \in 1..4 |-> BlockVertex(combine(QuadTemplate(face)[k], position), tex_coords[k])]

\* slice::rotate_right(k) on a 4-array
rotate_right(s, k) == [i \in 1..4 |-> s[((i - 1 - k + 4) % 4) + 1]]

\* the atlas tile (x, y) picked by the first match of tex_coords
AtlasTile(block_type, face) ==
  CASE block_type = "Grass" ->
         (CASE face = "Top" -> <<0, 0>>
            [] face = "Bottom" -> <<2, 0>>
            [] OTHER -> <<3, 0>>)
    [] block_type = "Dirt" -> <<2, 0>>
    [] block_type = "Stone" -> <<1, 0>>
    [] block_type = "Air" -> <<3, 0>>

\* tex_coords without the rotation of the side faces
tex_coords_NoRotate(block_type, face) ==
  << <<AtlasTile(block_type, face)[1] * BLOCK_SIZE, AtlasTile(block_type, face)[2] * BLOCK_SIZE>>,
     <<AtlasTile(block_type, face)[1] * BLOCK_SIZE + BLOCK_SIZE,
       AtlasTile(block_type, face)[2] * BLOCK_SIZE>>,
     <<AtlasTile(block_type, face)[1] * BLOCK_SIZE + BLOCK_SIZE,
       AtlasTile(block_type, face)[2] * BLOCK_SIZE + BLOCK_SIZE>>,
     <<AtlasTile(block_type, face)[1] * BLOCK_SIZE,
       AtlasTile(block_type, face)[2] * BLOCK_SIZE + BLOCK_SIZE>> >>

\* BlockType::tex_coords; coordinates are numerators over ATLAS_SIZE
tex_coords(block_type, face) ==
  LET t == AtlasTile(block_type, face)
      u_min == t[1] * BLOCK_SIZE
      v_min == t[2] * BLOCK_SIZE
      u_max == u_min + BLOCK_SIZE
      v_max == v_min + BLOCK_SIZE
      uv_coords == << <<u_min, v_min>>, <<u_max, v_min>>, <<u_max, v_max>>, <<u_min, v_max>> >>
  IN  CASE face \in {"Front", "Back"} -> rotate_right(uv_coords, 2)
        [] face \in {"Left", "Right"} -> rotate_right(uv_coords, 1)
        [] OTHER -> uv_coords

\* Block::generate_face
generate_face(block, face) == BlockQuad(face, tex_coords(block.block_type, face), block.position)

\* add_face with base_index read after the vertices are appended
add_face_BaseAfterExtend(mesh, quad) ==
  [vertices |-> mesh.vertices \o quad,
   indices |-> mesh.indices
               \o <<Len(mesh.vertices) + 4 + 0, Len(mesh.vertices) + 4 + 1,
                    Len(mesh.vertices) + 4 + 2, Len(mesh.vertices) + 4 + 0,
                    Len(mesh.vertices) + 4 + 2, Len(mesh.vertices) + 4 + 3>>]

\* TerrainMesh::add_face
add_face(mesh, quad) ==
  LET base_index == Len(mesh.vertices)
  IN  [vertices |-> mesh.vertices \o quad,
       indices |-> mesh.indices \o <<base_index + 0, base_index + 1, base_index + 2,
                                     base_index + 0, base_index + 2, base_index + 3>>]

(* ------------------------------------------------------------- chunk.rs *)
Xs == 0..(CHUNK_WIDTH - 1)
Ys == 0..(CHUNK_HEIGHT - 1)
Zs == 0..(CHUNK_DEPTH - 1)

\* Chunk::new
ChunkNew(position) ==
  [position |-> position,
   mesh |-> TerrainMeshNew,
   blocks |-> [x \in Xs |-> [y \in Ys |-> [z \in Zs |-> Block("Air", <<0, 0, 0>>)]]]]

\* should_render_face that skips the faces on the chunk boundary
should_render_face_SkipBoundary(chunk, x, y, z) ==
  IF x < 0 \/ x >= CHUNK_WIDTH \/ y < 0 \/ y >= CHUNK_HEIGHT \/ z < 0 \/ z >= CHUNK_DEPTH
  THEN FALSE
  ELSE is_air(chunk.blocks[x][y][z])

\* Chunk::should_render_face
should_render_face(chunk, x, y, z) ==
  IF x < 0 \/ x >= CHUNK_WIDTH \/ y < 0 \/ y >= CHUNK_HEIGHT \/ z < 0 \/ z >= CHUNK_DEPTH
  THEN TRUE
  ELSE is_air(chunk.blocks[x][y][z])

\* the cell generate_mesh tests for a face of the voxel (x, y, z)
Neighbor(face, x, y, z) ==
  CASE face = "Left"   -> <<x - 1, y, z>>
    [] face = "Right"  -> <<x + 1, y, z>>
    [] face = "Bottom" -> <<x, y - 1, z>>
    [] face = "Top"    -> <<x, y + 1, z>>
    [] face = "Front"  -> <<x, y, z - 1>>
    [] face = "Back"   -> <<x, y, z + 1>>

\* a face test that renders every face of a non-Air voxel
MeshFace_NoCulling(chunk, x, y, z, face, mesh) ==
  add_face(mesh, generate_face(chunk.blocks[x][y][z], face))

\* one "if self.should_render_face(..) { self.mesh.add_face(block.generate_face(face)) }"
MeshFace(chunk, x, y, z, face, mesh) ==
  IF should_render_face(chunk, Neighbor(face, x, y, z)[1], Neighbor(face, x, y, z)[2],
                        Neighbor(face, x, y, z)[3])
  THEN add_face(mesh, generate_face(chunk.blocks[x][y][z], face))
  ELSE mesh

\* a loop body without the test of the Back face
MeshVoxel_NoBack(chunk, x, y, z, mesh) ==
  IF is_air(chunk.blocks[x][y][z]) THEN mesh
  ELSE MeshFace(chunk, x, y, z, "Front",
         MeshFace(chunk, x, y, z, "Top",
           MeshFace(chunk, x, y, z, "Bottom",
             MeshFace(chunk, x, y, z, "Right",
               MeshFace(chunk, x, y, z, "Left", mesh)))))

\* the body of the loop nest of generate_mesh for the voxel (x, y, z)
MeshVoxel(chunk, x, y, z, mesh) ==
  IF is_air(chunk.blocks[x][y][z]) THEN mesh
  ELSE MeshFace(chunk, x, y, z, "Back",
         MeshFace(chunk, x, y, z, "Front",
           MeshFace(chunk, x, y, z, "Top",
             MeshFace(chunk, x, y, z, "Bottom",
               MeshFace(chunk, x, y, z, "Right",
                 MeshFace(chunk, x, y, z, "Left", mesh))))))

RECURSIVE MeshLoop(_, _, _)
\* the x / y / z loop nest of generate_mesh, from the i-th voxel on (the second
\* disjunct is never true: it has the mesh so far evaluated before the next pass)
MeshLoop(chunk, i, mesh) ==
  IF i >= CHUNK_WIDTH * CHUNK_HEIGHT * CHUNK_DEPTH \/ Len(mesh.vertices) < 0 THEN mesh
  ELSE MeshLoop(chunk, i + 1,
         MeshVoxel(chunk, i \div (CHUNK_HEIGHT * CHUNK_DEPTH),
                   (i \div CHUNK_DEPTH) % CHUNK_HEIGHT, i % CHUNK_DEPTH, mesh))

\* generate_mesh that appends to the mesh the chunk already holds
generate_mesh_Append(chunk) == [chunk EXCEPT !.mesh = MeshLoop(chunk, 0, chunk.mesh)]

\* Chunk::generate_mesh
generate_mesh(chunk) == [chunk EXCEPT !.mesh = MeshLoop(chunk, 0, TerrainMeshNew)]

\* "as usize" of an f32 that holds a whole number: negative values give 0
AsUsize(v) == IF v < 0 THEN 0 ELSE v

\* "as usize" of an f32 height kept in quarter units: truncation, negative values give 0
HeightAsUsize(h) == IF h < 0 THEN 0 ELSE h \div 4

block_size == 2

\* the key of the chunk-local column
HeightMapKey_Local(position, x, z) == <<x, z>>

\* the height-map key Chunk::init looks up for the local column (x, z)
HeightMapKey(position, x, z) == <<x + AsUsize(position[1]), z + AsUsize(position[3])>>

\* the classification with the Stone test ahead of the Grass test
InitBlockType_StoneFirst(y, terrain_height) ==
  IF y = 0 THEN "Stone"
  ELSE IF y = HeightAsUsize(terrain_height) THEN "Grass"
  ELSE IF y < HeightAsUsize(terrain_height) THEN "Dirt"
  ELSE "Air"

\* the block type Chunk::init gives level y of a column of height terrain_height
InitBlockType(y, terrain_height) ==
  IF y = HeightAsUsize(terrain_height) THEN "Grass"
  ELSE IF y = 0 THEN "Stone"
  ELSE IF y < HeightAsUsize(terrain_height) THEN "Dirt"
  ELSE "Air"

\* the keys of the x / z loop nest of Chunk::init, in loop order
InitKeys(position) ==
  [i \in 1..(CHUNK_WIDTH * CHUNK_DEPTH) |->
     HeightMapKey(position, (i - 1) \div CHUNK_DEPTH, (i - 1) % CHUNK_DEPTH)]

\* Chunk::init panics: some height_map.get(..).unwrap() is called on None
InitPanics(chunk, hm) ==
  \E i \in DOMAIN InitKeys(chunk.position) : InitKeys(chunk.position)[i] \notin DOMAIN hm

\* the keys Chunk::init has looked up when it returns or panics
InitLookups(chunk, hm) ==
  LET keys == InitKeys(chunk.position)
      missing == {i \in DOMAIN keys : keys[i] \notin DOMAIN hm}
      last == IF missing = {} THEN Len(keys)
              ELSE CHOOSE i \in missing : \A j \in missing : i <= j
  IN  SubSeq(keys, 1, last)

\* the grid Chunk::init writes
InitBlocks(chunk, hm) ==
  [x \in Xs |-> [y \in Ys |-> [z \in Zs |->
     Block(InitBlockType(y, hm[HeightMapKey(chunk.position, x, z)]),
           <<(chunk.position[1] + x) * block_size,
             (chunk.position[2] + y) * block_size,
             (chunk.position[3] + z) * block_size>>)]]]

\* an init that leaves the mesh as it was
init_NoMesh(chunk, hm) == [chunk EXCEPT !.blocks = InitBlocks(chunk, hm)]

\* Chunk::init, when it does not panic
init(chunk, hm) == generate_mesh([chunk EXCEPT !.blocks = InitBlocks(chunk, hm)])

(* ------------------------------------------------------------- noise.rs *)
\* f32 arithmetic on heights kept in quarter units.  The format is scaled down: a
\* significand of F32_DIGITS bits (f32 has 24) and a largest finite value of F32_MAX
\* quarter units (f32: about 3.4e38); one quarter unit is the finest step.  F32_INF
\* and -F32_INF stand for the infinities and F32_NAN for NaN.
F32_DIGITS == 4
F32_MAX == 960
F32_INF == 1000000
F32_NAN == 2000000

RECURSIVE F32Ulp(_, _)
\* the spacing of the values of the format around the magnitude m: the least u,
\* from u on in powers of two, with m < 2^F32_DIGITS * u
F32Ulp(m, u) == IF m < (2 ^ F32_DIGITS) * u THEN u ELSE F32Ulp(m, 2 * u)

\* the magnitude m rounded to a multiple of u, ties to the even multiple
RoundToMultiple(m, u) ==
  IF 2 * (m % u) > u \/ (2 * (m % u) = u /\ (m \div u) % 2 = 1)
  THEN (m \div u) * u + u
  ELSE (m \div u) * u

\* the exact value v rounded to the format: to the nearest value, ties to even, and
\* to an infinity beyond the largest finite value
F32Round(v) ==
  LET m == IF v < 0 THEN -v ELSE v
      r == RoundToMultiple(m, F32Ulp(m, 1))
  IN  IF r > F32_MAX THEN (IF v < 0 THEN -F32_INF ELSE F32_INF)
      ELSE IF v < 0 THEN -r ELSE r

\* a - b of two finite f32 values
F32Sub(a, b) == F32Round(a - b)

\* n * d, n = n4 / 4 a normalized noise value (a multiple of 1/4 in [0, 1]) and d a
\* difference that is not negative (finite values of d are multiples of 4 here)
F32Mul(n4, d) ==
  IF d = F32_INF THEN (IF n4 = 0 THEN F32_NAN ELSE F32_INF)
  ELSE F32Round((n4 * d) \div 4)

\* a + p, a finite
F32Add(a, p) == IF p \in {F32_INF, F32_NAN} THEN p ELSE F32Round(a + p)

\* a noise function whose value depends on the number of calls made so far
PerlinGet_CallCount(seed, x, z) == ((seed + 3 * x + 7 * z + seed * x * z + added) % 5) - 2

\* Perlin::get of the noise crate at (x / scale, z / scale): a value of [-1, 1],
\* kept in half units, fixed by the seed and the point.
PerlinGet(seed, x, z) == ((seed + 3 * x + 7 * z + seed * x * z) % 5) - 2

\* generate_perlin_noise; height_min and height_max in whole units, the heights of
\* the map in quarter units
generate_perlin_noise(chunk_width, chunk_depth, seed, height_min, height_max) ==
  [key \in (0..(chunk_width - 1)) \X (0..(chunk_depth - 1)) |->
     F32Add(4 * height_min,
            F32Mul(PerlinGet(seed, key[1], key[2]) + 2,
                   F32Sub(4 * height_max, 4 * height_min)))]

(* ------------------------------------------------------------- chunk.rs *)
\* the height map generate_chunks builds
GenHeightMap(chunk_count, seed) ==
  generate_perlin_noise(chunk_count * CHUNK_WIDTH, chunk_count * CHUNK_DEPTH, seed, 0, HEIGHT_MAX)

\* the chunks generate_chunks constructs, before init
GenNewChunks(chunk_count) ==
  [i \in 1..(chunk_count * chunk_count) |->
     ChunkNew(<<((i - 1) \div chunk_count) * CHUNK_WIDTH,
                0 * CHUNK_HEIGHT,
                ((i - 1) % chunk_count) * CHUNK_DEPTH>>)]

\* generate_chunks panics in some init
GenPanics(chunk_count, seed) ==
  \E i \in DOMAIN GenNewChunks(chunk_count) :
     InitPanics(GenNewChunks(chunk_count)[i], GenHeightMap(chunk_count, seed))

\* generate_chunks
generate_chunks(chunk_count, seed) ==
  [i \in 1..(chunk_count * chunk_count) |->
     init(GenNewChunks(chunk_count)[i], GenHeightMap(chunk_count, seed))]

RECURSIVE GenLookups(_, _, _)
\* the look-ups of the init calls of generate_chunks from chunk i on, each with its chunk
GenLookups(cs, hm, i) ==
  IF i > Len(cs) THEN <<>>
  ELSE [k \in DOMAIN InitLookups(cs[i], hm) |-> [chunk |-> i, key |-> InitLookups(cs[i], hm)[k]]]
       \o (IF InitPanics(cs[i], hm) THEN <<>> ELSE GenLookups(cs, hm, i + 1))

\* a search that keeps the last chunk at position
FindChunk_Last(cs, position) ==
  IF \E i \in DOMAIN cs : cs[i].position = position
  THEN CHOOSE i \in DOMAIN cs : cs[i].position = position
                                /\ \A j \in (i + 1)..Len(cs) : cs[j].position # position
  ELSE 0

\* ChunkList::get_chunk / get_chunk_mut: the index of the first chunk at position, 0 if none
FindChunk(cs, position) ==
  IF \E i \in DOMAIN cs : cs[i].position = position
  THEN CHOOSE i \in DOMAIN cs : cs[i].position = position
                                /\ \A j \in 1..(i - 1) : cs[j].position # position
  ELSE 0

\* ChunkList::get_chunk
get_chunk(cs, position) ==
  IF FindChunk(cs, position) = 0 THEN None ELSE Some(cs[FindChunk(cs, position)])

\* ChunkList::get_chunk_mut: the chunk the returned reference points to
get_chunk_mut(cs, position) ==
  IF FindChunk(cs, position) = 0 THEN None ELSE Some(cs[FindChunk(cs, position)])

\* a pass that appends the indices of the chunk as they are
MergeChunk_NoRebase(global, mesh) ==
  [vertices |-> global.vertices \o mesh.vertices,
   indices |-> global.indices \o mesh.indices]

\* one pass of the loop of merge_meshes: append the mesh of a chunk to the global lists
MergeChunk(global, mesh) ==
  [vertices |-> global.vertices \o mesh.vertices,
   indices |-> global.indices
               \o [k \in DOMAIN mesh.indices |-> Len(global.vertices) + mesh.indices[k]]]

RECURSIVE MergeLoop(_, _, _)
\* the loop over the chunks of merge_meshes, from chunk i on
MergeLoop(cs, i, global) ==
  IF i > Len(cs) THEN global
  ELSE MergeLoop(cs, i + 1, MergeChunk(global, cs[i].mesh))

\* a merge that leaves the first chunk out
merge_meshes_SkipFirst(cs) == MergeLoop(cs, 2, TerrainMeshNew)

\* ChunkList::merge_meshes
merge_meshes(cs) == MergeLoop(cs, 1, TerrainMeshNew)

\* a cache that is recomputed on every call
ChunkList_mesh_AlwaysMerge(calculated, cs) == Some(merge_meshes(cs))

\* ChunkList::mesh: the value of calculated_mesh when it returns
ChunkList_mesh(calculated, cs) == IF calculated = None THEN Some(merge_meshes(cs)) ELSE calculated

(* -------------------------------------------------------------- actions *)
NoRet == [op |-> "none", arg |-> <<>>, value |-> <<>>]

Init ==
  /\ pc = "start"
  /\ height_map = <<>>
  /\ lookups = <<>>
  /\ chunks = <<>>
  /\ spare = <<>>
  /\ calculated_mesh = None
  /\ ret = NoRet
  /\ added = 0

\* Game::new: ChunkList::new over generate_chunks(chunk_count).  The caller keeps
\* the chunks after the k-th for later add_chunk calls (game.rs:58 keeps none).
GameNew(chunk_count, seed, k) ==
  /\ pc = "start"
  /\ height_map' = GenHeightMap(chunk_count, seed)
  /\ lookups' = GenLookups(GenNewChunks(chunk_count), GenHeightMap(chunk_count, seed), 1)
  /\ IF GenPanics(chunk_count, seed)
     THEN /\ pc' = "panicked"
          /\ UNCHANGED <<chunks, spare>>
     ELSE /\ pc' = "ready"
          /\ chunks' = SubSeq(generate_chunks(chunk_count, seed), 1, k)
          /\ spare' = SubSeq(generate_chunks(chunk_count, seed), k + 1, chunk_count * chunk_count)
  /\ calculated_mesh' = None
  /\ UNCHANGED <<ret, added>>

\* ChunkList::add_chunk(Chunk::new(position))
AddChunkNew(position) ==
  /\ pc = "ready"
  /\ added < MaxAdded
  /\ chunks' = Append(chunks, ChunkNew(position))
  /\ added' = added + 1
  /\ ret' = [op |-> "add_chunk", arg |-> position, value |-> <<>>]
  /\ UNCHANGED <<pc, height_map, lookups, spare, calculated_mesh>>

\* an add_chunk that empties the cache
AddChunkSpare_Invalidate ==
  /\ pc = "ready"
  /\ spare # <<>>
  /\ chunks' = Append(chunks, Head(spare))
  /\ spare' = Tail(spare)
  /\ calculated_mesh' = None
  /\ ret' = [op |-> "add_chunk", arg |-> Head(spare).position, value |-> <<>>]
  /\ UNCHANGED <<pc, height_map, lookups, added>>

\* ChunkList::add_chunk of the next chunk the caller kept
AddChunkSpare ==
  /\ pc = "ready"
  /\ spare # <<>>
  /\ chunks' = Append(chunks, Head(spare))
  /\ spare' = Tail(spare)
  /\ ret' = [op |-> "add_chunk", arg |-> Head(spare).position, value |-> <<>>]
  /\ UNCHANGED <<pc, height_map, lookups, calculated_mesh, added>>

\* ChunkList::get_chunk
GetChunk(position) ==
  /\ pc = "ready"
  /\ ret' = [op |-> "get_chunk", arg |-> position, value |-> get_chunk(chunks, position)]
  /\ UNCHANGED <<pc, height_map, lookups, chunks, spare, calculated_mesh, added>>

\* ChunkList::get_chunk_mut, the caller only reading the chunk it returns
GetChunkMut(position) ==
  /\ pc = "ready"
  /\ ret' = [op |-> "get_chunk_mut", arg |-> position, value |-> get_chunk_mut(chunks, position)]
  /\ UNCHANGED <<pc, height_map, lookups, chunks, spare, calculated_mesh, added>>

\* ChunkList::get_chunk_mut, and Chunk::generate_mesh on the chunk it returns
GetChunkMutGenerateMesh(position) ==
  /\ pc = "ready"
  /\ IF FindChunk(chunks, position) = 0
     THEN /\ ret' = [op |-> "get_chunk_mut", arg |-> position, value |-> None]
          /\ UNCHANGED chunks
     ELSE /\ chunks' = [chunks EXCEPT ![FindChunk(chunks, position)] = generate_mesh(@)]
          /\ ret' = [op |-> "generate_mesh", arg |-> position, value |-> <<>>]
  /\ UNCHANGED <<pc, height_map, lookups, spare, calculated_mesh, added>>

\* ChunkList::merge_meshes
MergeMeshes ==
  /\ pc = "ready"
  /\ ret' = [op |-> "merge_meshes", arg |-> <<>>, value |-> Some(merge_meshes(chunks))]
  /\ UNCHANGED <<pc, height_map, lookups, chunks, spare, calculated_mesh, added>>

\* ChunkList::mesh
Mesh ==
  /\ pc = "ready"
  /\ calculated_mesh' = ChunkList_mesh(calculated_mesh, chunks)
  /\ ret' = [op |-> "mesh", arg |-> <<>>, value |-> calculated_mesh']
  /\ UNCHANGED <<pc, height_map, lookups, chunks, spare, added>>

Next ==
  \/ \E n \in 1..MaxChunkCount, seed \in Seeds, s \in SpareCounts :
        s <= n * n /\ GameNew(n, seed, n * n - s)
  \/ \E p \in Positions : AddChunkNew(p)
  \/ AddChunkSpare
  \/ \E p \in Positions : GetChunk(p)
  \/ \E p \in Positions : GetChunkMut(p)
  \/ \E p \in Positions : GetChunkMutGenerateMesh(p)
  \/ MergeMeshes
  \/ Mesh

Spec == Init /\ [][Next]_vars

(* --------------------------------------------- Chunk::init on any inputs *)
\* origins of the chunk handed to Chunk::init
Origins == {<<0, 0, 0>>, <<CHUNK_WIDTH, 0, 0>>, <<0, CHUNK_HEIGHT, CHUNK_DEPTH>>,
            <<-CHUNK_WIDTH, 0, 0>>, <<0, 0, -CHUNK_DEPTH>>}
\* heights (quarter units) of the column (0, 0) of the height maps handed to Chunk::init
FieldBases == {-8, -3, 0, 3, 4, 9, 4 * HEIGHT_MAX, 4 * CHUNK_HEIGHT, 4 * CHUNK_HEIGHT + 6}
\* height step per column along x and along z
FieldSlopes == {<<0, 0>>, <<7, 0>>, <<0, -4>>, <<7, -4>>}
\* extents of the height maps
FieldWidths == {CHUNK_WIDTH, 2 * CHUNK_WIDTH - 1, 2 * CHUNK_WIDTH}
FieldDepths == {CHUNK_DEPTH - 1, CHUNK_DEPTH}
\* a key left out of the map (<<-1, -1>>: none)
FieldHoles == {<<-1, -1>>, <<1, 1>>}

\* a HashMap<(usize, usize), f32> over a width x depth rectangle less one key
HeightField(width, depth, base, slope, hole) ==
  [key \in ((0..(width - 1)) \X (0..(depth - 1))) \ {hole} |->
     base + slope[1] * key[1] + slope[2] * key[2]]

\* the grid Chunk::init has written when it panics at its n-th look-up
InitBlocksPartial(chunk, hm, n) ==
  [x \in Xs |-> [y \in Ys |-> [z \in Zs |->
     IF x * CHUNK_DEPTH + z + 1 < n THEN InitBlocks(chunk, hm)[x][y][z]
     ELSE chunk.blocks[x][y][z]]]]

InitI ==
  /\ pc = "start"
  /\ \E o \in Origins : chunks = <<ChunkNew(o)>>
  /\ \E w \in FieldWidths, d \in FieldDepths, b \in FieldBases, s \in FieldSlopes,
        h \in FieldHoles : height_map = HeightField(w, d, b, s, h)
  /\ lookups = <<>>
  /\ spare = <<>>
  /\ calculated_mesh = None
  /\ ret = NoRet
  /\ added = 0

\* chunk.init(&height_map)
ChunkInit ==
  /\ pc = "start"
  /\ lookups' = [k \in DOMAIN InitLookups(chunks[1], height_map) |->
                   [chunk |-> 1, key |-> InitLookups(chunks[1], height_map)[k]]]
  /\ IF InitPanics(chunks[1], height_map)
     THEN /\ pc' = "panicked"
          /\ chunks' = <<[chunks[1] EXCEPT !.blocks =
                            InitBlocksPartial(chunks[1], height_map, Len(lookups'))]>>
     ELSE /\ pc' = "ready"
          /\ chunks' = <<init(chunks[1], height_map)>>
  /\ ret' = [op |-> "init", arg |-> chunks[1].position, value |-> <<>>]
  /\ UNCHANGED <<height_map, spare, calculated_mesh, added>>

\* chunk.init(&height_map), then ChunkList::new(vec![chunk]) and its merge_meshes and
\* mesh calls
NextI ==
  \/ ChunkInit
  \/ MergeMeshes
  \/ Mesh

SpecInit == InitI /\ [][NextI]_vars

(* --------------------------------------- Chunk::generate_mesh on any grid *)
Cells == Xs \X Ys \X Zs

\* the cells of the run of k voxels from cell along axis (0: x, 1: y, 2: z), as far
\* as it stays inside the chunk
CellRun(cell, axis, k) ==
  {c \in Cells : \E j \in 0..(k - 1) :
     c = <<cell[1] + (IF axis = 0 THEN j ELSE 0),
           cell[2] + (IF axis = 1 THEN j ELSE 0),
           cell[3] + (IF axis = 2 THEN j ELSE 0)>>}

\* the runs of at most MaxSolid voxels along an axis, anywhere in the chunk
CellRuns == {CellRun(cell, axis, k) : cell \in Cells, axis \in 0..2, k \in 0..MaxSolid}

\* a chunk at the origin whose grid holds block type inside at the cells of s and
\* block type outside elsewhere, positioned as Chunk::init positions blocks
GridChunk(s, inside, outside) ==
  [position |-> <<0, 0, 0>>,
   mesh |-> TerrainMeshNew,
   blocks |-> [x \in Xs |-> [y \in Ys |-> [z \in Zs |->
                 Block(IF <<x, y, z>> \in s THEN inside ELSE outside,
                       <<x * block_size, y * block_size, z * block_size>>)]]]]

\* a chunk at the origin whose grid holds block type ta at cell a, tb at cell b and
\* Air elsewhere
GridPair(a, b, ta, tb) ==
  [position |-> <<0, 0, 0>>,
   mesh |-> TerrainMeshNew,
   blocks |-> [x \in Xs |-> [y \in Ys |-> [z \in Zs |->
                 Block(IF <<x, y, z>> = a THEN ta ELSE IF <<x, y, z>> = b THEN tb ELSE "Air",
                       <<x * block_size, y * block_size, z * block_size>>)]]]]

\* the pairs of cells next to each other along an axis
CellPairs ==
  {p \in Cells \X Cells :
     \E axis \in 0..2 : CellRun(p[1], axis, 2) = {p[1], p[2]} /\ p[1] # p[2]}

\* the grids handed to generate_mesh: a run of one block type in Air, two voxels of
\* different types next to each other in Air, a run of Air or Dirt in Stone, and the
\* terrain of generate_chunks(1), each with an empty mesh
GridChunks ==
  {GridChunk(s, t, "Air") : s \in CellRuns, t \in {"Dirt", "Grass", "Stone"}}
  \cup {GridPair(p[1], p[2], t[1], t[2]) :
          p \in CellPairs, t \in {<<"Dirt", "Grass">>, <<"Grass", "Stone">>, <<"Stone", "Dirt">>}}
  \cup {GridChunk(s, t, "Stone") : s \in CellRuns, t \in {"Air", "Dirt"}}
  \cup {[generate_chunks(1, seed)[1] EXCEPT !.mesh = TerrainMeshNew] : seed \in Seeds}

InitM ==
  /\ pc = "ready"
  /\ \E c \in GridChunks : chunks = <<c>>
  /\ height_map = <<>>
  /\ lookups = <<>>
  /\ spare = <<>>
  /\ calculated_mesh = None
  /\ ret = NoRet
  /\ added = 0

\* chunk.generate_mesh()
GenerateMesh ==
  /\ pc = "ready"
  /\ chunks' = [chunks EXCEPT ![1] = generate_mesh(@)]
  /\ ret' = [op |-> "generate_mesh", arg |-> chunks[1].position, value |-> <<>>]
  /\ UNCHANGED <<pc, height_map, lookups, spare, calculated_mesh, added>>

NextM == GenerateMesh

SpecMesh == InitM /\ [][NextM]_vars

(* ------------------- generate_chunks, the init calls of its chunks stepwise *)
\* chunk_count arguments of the generate_chunks call whose init calls are interleaved
GenCounts == {1, 2}

\* the steps of one Chunk::init call: one per column, then generate_mesh
InitSteps == CHUNK_WIDTH * CHUNK_DEPTH + 1

\* In this specification pc[i] is the number of steps the init call of chunk i has
\* taken, and ret holds the arguments of the generate_chunks call.
InitG ==
  /\ \E n \in GenCounts, seed \in Seeds :
       /\ height_map = GenHeightMap(n, seed)
       /\ chunks = GenNewChunks(n)
       /\ pc = [i \in 1..(n * n) |-> 0]
       /\ ret = [op |-> "generate_chunks", arg |-> <<n, seed>>, value |-> <<>>]
  /\ lookups = <<>>
  /\ spare = <<>>
  /\ calculated_mesh = None
  /\ added = 0

\* a column pass that writes the column into the grid of every chunk
InitColumn_SharedGrid(i) ==
  /\ pc[i] < CHUNK_WIDTH * CHUNK_DEPTH
  /\ InitKeys(chunks[i].position)[pc[i] + 1] \in DOMAIN height_map
  /\ chunks' = [j \in DOMAIN chunks |->
                  [chunks[j] EXCEPT !.blocks = InitBlocksPartial(chunks[i], height_map, pc[i] + 2)]]
  /\ pc' = [pc EXCEPT ![i] = @ + 1]
  /\ UNCHANGED <<height_map, lookups, spare, calculated_mesh, ret, added>>

\* one pass of the x / z loop nest of the init call of chunk i: look the height of the
\* next column up and write the blocks of that column
InitColumn(i) ==
  /\ pc[i] < CHUNK_WIDTH * CHUNK_DEPTH
  /\ InitKeys(chunks[i].position)[pc[i] + 1] \in DOMAIN height_map
  /\ chunks' = [chunks EXCEPT ![i].blocks = InitBlocksPartial(chunks[i], height_map, pc[i] + 2)]
  /\ pc' = [pc EXCEPT ![i] = @ + 1]
  /\ UNCHANGED <<height_map, lookups, spare, calculated_mesh, ret, added>>

\* the generate_mesh call that ends the init call of chunk i
InitMesh(i) ==
  /\ pc[i] = CHUNK_WIDTH * CHUNK_DEPTH
  /\ chunks' = [chunks EXCEPT ![i] = generate_mesh(@)]
  /\ pc' = [pc EXCEPT ![i] = @ + 1]
  /\ UNCHANGED <<height_map, lookups, spare, calculated_mesh, ret, added>>

NextG ==
  \/ \E i \in DOMAIN chunks : InitColumn(i)
  \/ \E i \in DOMAIN chunks : InitMesh(i)

SpecGen == InitG /\ [][NextG]_vars

(* ------------------------------------------ Block::generate_face on any block *)
\* In this specification ret.arg holds the block type, the face and the position of
\* the block handed to generate_face.
InitF ==
  /\ pc = "ready"
  /\ \E t \in BlockType, f \in Face, cell \in Cells :
       ret = [op |-> "none",
              arg |-> <<t, f, <<cell[1] * block_size, cell[2] * block_size, cell[3] * block_size>> >>,
              value |-> <<>>]
  /\ height_map = <<>>
  /\ lookups = <<>>
  /\ chunks = <<>>
  /\ spare = <<>>
  /\ calculated_mesh = None
  /\ added = 0

\* Block::new(block_type, position).generate_face(face)
GenerateFace ==
  /\ ret.op = "none"
  /\ ret' = [op |-> "generate_face", arg |-> ret.arg,
             value |-> generate_face(Block(ret.arg[1], ret.arg[3]), ret.arg[2])]
  /\ UNCHANGED <<pc, height_map, lookups, chunks, spare, calculated_mesh, added>>

NextF == GenerateFace

SpecFace == InitF /\ [][NextF]_vars

(* ------------------------------------- generate_perlin_noise on any arguments *)
\* widths and depths of the map asked for
NoiseWidths == 0..CHUNK_WIDTH
NoiseDepths == 0..CHUNK_DEPTH
\* height_min and height_max (whole units), values of the f32 format
HeightMins == {-240, -1, 0, 1}
HeightMaxs == {0, 1, HEIGHT_MAX, 22, 240}

\* In this specification added counts the calls made, and ret holds the arguments of
\* the first call and, after a second call with the same arguments, its map.
InitN ==
  /\ pc = "start"
  /\ height_map = <<>>
  /\ lookups = <<>>
  /\ chunks = <<>>
  /\ spare = <<>>
  /\ calculated_mesh = None
  /\ ret = NoRet
  /\ added = 0

\* height_map = generate_perlin_noise(width, depth, scale, seed, height_min, height_max)
NoiseCall(width, depth, seed, height_min, height_max) ==
  /\ pc = "start"
  /\ height_min <= height_max
  /\ height_map' = generate_perlin_noise(width, depth, seed, height_min, height_max)
  /\ ret' = [op |-> "generate_perlin_noise",
             arg |-> <<width, depth, seed, height_min, height_max>>, value |-> <<>>]
  /\ added' = added + 1
  /\ pc' = "called"
  /\ UNCHANGED <<lookups, chunks, spare, calculated_mesh>>

\* a second call with the arguments of the first
NoiseCallAgain ==
  /\ pc = "called"
  /\ ret' = [ret EXCEPT !.value =
               Some(generate_perlin_noise(ret.arg[1], ret.arg[2], ret.arg[3], ret.arg[4],
                                          ret.arg[5]))]
  /\ added' = added + 1
  /\ pc' = "called again"
  /\ UNCHANGED <<height_map, lookups, chunks, spare, calculated_mesh>>

NextN ==
  \/ \E w \in NoiseWidths, d \in NoiseDepths, seed \in Seeds, lo \in HeightMins,
        hi \in HeightMaxs : NoiseCall(w, d, seed, lo, hi)
  \/ NoiseCallAgain

SpecNoise == InitN /\ [][NextN]_vars

(* =============================================================== claims *)
\* every index is below the vertex count and the indices form whole triangles
MeshIndicesValid(m) ==
  /\ \A k \in DOMAIN m.indices : m.indices[k] >= 0 /\ m.indices[k] < Len(m.vertices)
  /\ Len(m.indices) % 3 = 0

\* C1: the mesh of every chunk, every mesh returned by merge_meshes or mesh, and the
\* cached merged mesh have every index strictly below the vertex count and an index
\* count that is a multiple of 3.
C1_MeshIndicesValid ==
  /\ \A i \in DOMAIN chunks : MeshIndicesValid(chunks[i].mesh)
  /\ \A i \in DOMAIN spare : MeshIndicesValid(spare[i].mesh)
  /\ calculated_mesh # None => MeshIndicesValid(calculated_mesh[1])
  /\ ret.op \in {"merge_meshes", "mesh"} => MeshIndicesValid(ret.value[1])

\* merge_meshes has returned the merge of at least two chunks with faces
C1_Witness ==
  /\ ret.op = "merge_meshes"
  /\ Cardinality({i \in DOMAIN chunks : Len(chunks[i].mesh.indices) > 0}) >= 2
  /\ Len(ret.value[1].indices) > 0

RECURSIVE VertexOffset(_, _)
\* the vertex count of the chunks before the k-th
VertexOffset(cs, k) ==
  IF k <= 1 THEN 0 ELSE VertexOffset(cs, k - 1) + Len(cs[k - 1].mesh.vertices)

RECURSIVE IndexOffset(_, _)
\* the index count of the chunks before the k-th
IndexOffset(cs, k) ==
  IF k <= 1 THEN 0 ELSE IndexOffset(cs, k - 1) + Len(cs[k - 1].mesh.indices)

\* m is the concatenation of the meshes of cs, the indices of chunk k raised by the
\* vertex count of the chunks before it
IsMergeOf(m, cs) ==
  /\ Len(m.vertices) = VertexOffset(cs, Len(cs) + 1)
  /\ Len(m.indices) = IndexOffset(cs, Len(cs) + 1)
  /\ \A k \in DOMAIN cs :
       /\ \A j \in DOMAIN cs[k].mesh.vertices :
            m.vertices[VertexOffset(cs, k) + j] = cs[k].mesh.vertices[j]
       /\ \A j \in DOMAIN cs[k].mesh.indices :
            m.indices[IndexOffset(cs, k) + j] = cs[k].mesh.indices[j] + VertexOffset(cs, k)

\* C2: merge_meshes returns the concatenation of the chunks' vertex lists and of their
\* index lists, each index of chunk k increased by the vertex count of chunks 1..k-1.
C2_MergeIsRebasedConcatenation ==
  ret.op = "merge_meshes" => IsMergeOf(ret.value[1], chunks)

\* merge_meshes has merged a second chunk with faces behind a first chunk with faces
C2_Witness ==
  /\ ret.op = "merge_meshes"
  /\ Len(chunks) >= 2
  /\ Len(chunks[1].mesh.vertices) > 0
  /\ Len(chunks[2].mesh.indices) > 0
  /\ ret.value[1].indices[Len(chunks[1].mesh.indices) + 1]
       = chunks[2].mesh.indices[1] + Len(chunks[1].mesh.vertices)

\* the chunk_count of the generate_chunks call that made gen
ChunkCountOf(gen) == CHOOSE n \in 0..Len(gen) : n * n = Len(gen)

\* the global column of the local column (x, z) of the i-th chunk of generate_chunks(n)
GlobalColumn(n, i, x, z) ==
  <<((i - 1) \div n) * CHUNK_WIDTH + x, ((i - 1) % n) * CHUNK_DEPTH + z>>

\* C3: in generate_chunks(n) every chunk (cx, cz) classifies its local column (x, z) by
\* the height at the global column (cx*W + x, cz*D + z); every column of the domain
\* [0, n*W) x [0, n*D) is looked up exactly once, and no look-up leaves the domain.
C3_GlobalColumns ==
  (pc = "ready" /\ added = 0) =>
    /\ DOMAIN height_map =
         (0..(ChunkCountOf(chunks \o spare) * CHUNK_WIDTH - 1))
         \X (0..(ChunkCountOf(chunks \o spare) * CHUNK_DEPTH - 1))
    /\ Len(lookups) = Len(chunks \o spare) * CHUNK_WIDTH * CHUNK_DEPTH
    /\ \A i \in DOMAIN (chunks \o spare), x \in Xs, z \in Zs :
         /\ lookups[(i - 1) * CHUNK_WIDTH * CHUNK_DEPTH + x * CHUNK_DEPTH + z + 1]
              = [chunk |-> i, key |-> GlobalColumn(ChunkCountOf(chunks \o spare), i, x, z)]
         /\ \A y \in Ys :
              (chunks \o spare)[i].blocks[x][y][z].block_type
                = InitBlockType(y, height_map[GlobalColumn(ChunkCountOf(chunks \o spare), i, x, z)])
    /\ \A key \in DOMAIN height_map :
         Cardinality({j \in DOMAIN lookups : lookups[j].key = key}) = 1
    /\ \A j \in DOMAIN lookups : lookups[j].key \in DOMAIN height_map

\* generate_chunks has made several chunks, and some chunk other than the first has a
\* column whose height differs from the height at its chunk-local coordinates
C3_Witness ==
  /\ pc = "ready"
  /\ added = 0
  /\ Len(chunks \o spare) > 1
  /\ \E i \in DOMAIN (chunks \o spare), x \in Xs, z \in Zs :
       HeightAsUsize(height_map[GlobalColumn(ChunkCountOf(chunks \o spare), i, x, z)])
         # HeightAsUsize(height_map[<<x, z>>])

\* floor of a height kept in quarter units
Floor(h) == h \div 4

\* the height Chunk::init has looked up for the local column (x, z) of chunk 1
LookedUpHeight(x, z) == height_map[lookups[x * CHUNK_DEPTH + z + 1].key]

\* the classification by floor(h)
FloorBlockType(y, h) ==
  IF y = Floor(h) THEN "Grass"
  ELSE IF y = 0 THEN "Stone"
  ELSE IF 0 < y /\ y < Floor(h) THEN "Dirt"
  ELSE "Air"

\* C4 as stated: after population, for any height h the field holds, the voxel at level
\* y is Grass if y = floor(h), otherwise Stone if y = 0, otherwise Dirt if
\* 0 < y < floor(h), otherwise Air.
C4_ClassifiedByFloor ==
  pc = "ready" =>
    \A x \in Xs, y \in Ys, z \in Zs :
      chunks[1].blocks[x][y][z].block_type = FloorBlockType(y, LookedUpHeight(x, z))

\* C4 as amended: for a height h >= 0 the voxel at level y is Grass if y = floor(h),
\* otherwise Stone if y = 0, otherwise Dirt if 0 < y < floor(h), otherwise Air (so a
\* height in [0, 1) gives Grass, not Stone, at y = 0); a height h < 0 is classified as
\* the height 0 is: Grass at y = 0 and Air above.
C4_ClassifiedByTruncation ==
  pc = "ready" =>
    \A x \in Xs, y \in Ys, z \in Zs :
      chunks[1].blocks[x][y][z].block_type =
        IF LookedUpHeight(x, z) >= 0 THEN FloorBlockType(y, LookedUpHeight(x, z))
        ELSE IF y = 0 THEN "Grass" ELSE "Air"

\* a populated chunk with a column of negative height, a column whose height lies in
\* [0, 1) and a column with Stone under Grass
C4_Witness ==
  /\ pc = "ready"
  /\ \E x \in Xs, z \in Zs :
       LookedUpHeight(x, z) < 0 /\ chunks[1].blocks[x][0][z].block_type = "Grass"
  /\ \E x \in Xs, z \in Zs :
       /\ LookedUpHeight(x, z) >= 0
       /\ LookedUpHeight(x, z) < 4
       /\ chunks[1].blocks[x][0][z].block_type = "Grass"
  /\ \E x \in Xs, z \in Zs :
       /\ chunks[1].blocks[x][0][z].block_type = "Stone"
       /\ chunks[1].blocks[x][1][z].block_type = "Grass"

\* C5: mesh() merges on its first call only: that call stores and returns the merge
\* of the chunks, and from then on the cache never changes and every mesh() call
\* returns it, whatever has happened to the chunks since.
C5_MeshIsMemoized ==
  [][/\ (calculated_mesh = None /\ calculated_mesh' # None) =>
          /\ ret'.op = "mesh"
          /\ ret'.value = calculated_mesh'
          /\ IsMergeOf(calculated_mesh'[1], chunks)
     /\ calculated_mesh # None =>
          /\ calculated_mesh' = calculated_mesh
          /\ ret'.op = "mesh" => ret'.value = calculated_mesh]_vars

\* mesh() has returned a cached mesh that is no longer the merge of the chunks
C5_Witness ==
  /\ ret.op = "mesh"
  /\ calculated_mesh # None
  /\ ret.value = calculated_mesh
  /\ ~IsMergeOf(calculated_mesh[1], chunks)

\* the number of quads of mesh m equal to quad
QuadCount(m, quad) ==
  Cardinality({k \in 0..((Len(m.vertices) \div 4) - 1) :
                 \A j \in 1..4 : m.vertices[4 * k + j] = quad[j]})

InBounds(n) ==
  /\ n[1] >= 0 /\ n[1] < CHUNK_WIDTH
  /\ n[2] >= 0 /\ n[2] < CHUNK_HEIGHT
  /\ n[3] >= 0 /\ n[3] < CHUNK_DEPTH

\* every face of a non-Air voxel of c that looks out of the chunk is in the mesh of c
BoundaryFacesEmitted(c) ==
  \A cell \in Cells, face \in Face :
    (/\ c.blocks[cell[1]][cell[2]][cell[3]].block_type # "Air"
     /\ ~InBounds(Neighbor(face, cell[1], cell[2], cell[3])))
    => QuadCount(c.mesh, generate_face(c.blocks[cell[1]][cell[2]][cell[3]], face)) = 1

\* C6: after generate_mesh (run by init in generate_chunks, or called again on a chunk
\* of the list), for every non-Air voxel and every direction whose neighbor coordinate
\* is outside the chunk, the quad of that face is in the chunk's mesh, whatever the
\* other chunks hold.
C6_BoundaryFacesEmitted ==
  (pc = "ready" /\ ret.op \in {"none", "generate_mesh"}) =>
    /\ \A i \in DOMAIN chunks : BoundaryFacesEmitted(chunks[i])
    /\ \A i \in DOMAIN spare : BoundaryFacesEmitted(spare[i])

\* two chunks next to each other along x, each with a non-Air voxel at the shared
\* boundary, and the quad of the first chunk's boundary face is in its mesh
C6_Witness ==
  \E i, j \in DOMAIN chunks :
    /\ pc = "ready"
    /\ ret.op \in {"none", "generate_mesh"}
    /\ chunks[j].position = <<chunks[i].position[1] + CHUNK_WIDTH, chunks[i].position[2],
                              chunks[i].position[3]>>
    /\ chunks[i].blocks[CHUNK_WIDTH - 1][0][0].block_type # "Air"
    /\ chunks[j].blocks[0][0][0].block_type # "Air"
    /\ QuadCount(chunks[i].mesh,
                 generate_face(chunks[i].blocks[CHUNK_WIDTH - 1][0][0], "Right")) = 1

\* the voxel of chunk c at a cell
VoxelAt(c, cell) == c.blocks[cell[1]][cell[2]][cell[3]]

\* the (non-Air voxel, direction) pairs of c whose neighbor is out of bounds or Air
ExposedFaces(c) ==
  {p \in Cells \X Face :
     /\ VoxelAt(c, p[1]).block_type # "Air"
     /\ \/ ~InBounds(Neighbor(p[2], p[1][1], p[1][2], p[1][3]))
        \/ VoxelAt(c, Neighbor(p[2], p[1][1], p[1][2], p[1][3])).block_type = "Air"}

\* C7: after generate_mesh, a face of a non-Air voxel whose neighbor cell is inside the
\* chunk has exactly one quad if the neighbor is Air and none if it is non-Air, and
\* the mesh holds as many quads as there are (non-Air voxel, direction) pairs whose
\* neighbor is out of bounds or Air (so Air voxels add none).
C7_InteriorFacesCulled ==
  ret.op = "generate_mesh" =>
    /\ \A cell \in Cells, face \in Face :
         (/\ VoxelAt(chunks[1], cell).block_type # "Air"
          /\ InBounds(Neighbor(face, cell[1], cell[2], cell[3])))
         => QuadCount(chunks[1].mesh, generate_face(VoxelAt(chunks[1], cell), face))
              = IF VoxelAt(chunks[1], Neighbor(face, cell[1], cell[2], cell[3])).block_type = "Air"
                THEN 1 ELSE 0
    /\ Len(chunks[1].mesh.vertices) = 4 * Cardinality(ExposedFaces(chunks[1]))
    /\ Len(chunks[1].mesh.indices) = 6 * Cardinality(ExposedFaces(chunks[1]))

\* generate_mesh has meshed a grid with two non-Air voxels next to each other and a
\* non-Air voxel with an Air neighbor inside the chunk
C7_Witness ==
  /\ ret.op = "generate_mesh"
  /\ \E cell \in Cells, face \in Face :
       /\ InBounds(Neighbor(face, cell[1], cell[2], cell[3]))
       /\ VoxelAt(chunks[1], cell).block_type # "Air"
       /\ VoxelAt(chunks[1], Neighbor(face, cell[1], cell[2], cell[3])).block_type # "Air"
  /\ \E cell \in Cells, face \in Face :
       /\ InBounds(Neighbor(face, cell[1], cell[2], cell[3]))
       /\ VoxelAt(chunks[1], cell).block_type # "Air"
       /\ VoxelAt(chunks[1], Neighbor(face, cell[1], cell[2], cell[3])).block_type = "Air"
       /\ QuadCount(chunks[1].mesh, generate_face(VoxelAt(chunks[1], cell), face)) = 1

Sub(a, b) == <<a[1] - b[1], a[2] - b[2], a[3] - b[3]>>
Cross(a, b) ==
  <<a[2] * b[3] - a[3] * b[2], a[3] * b[1] - a[1] * b[3], a[1] * b[2] - a[2] * b[1]>>
Dot(a, b) == a[1] * b[1] + a[2] * b[2] + a[3] * b[3]

\* the triangle (quad[i], quad[j], quad[k]) is counter-clockwise seen from the side
\* the vector dir points to
CounterClockwise(quad, i, j, k, dir) ==
  Dot(Cross(Sub(quad[j].position, quad[i].position), Sub(quad[k].position, quad[i].position)),
      dir) > 0

\* both triangles add_face builds from the quads of c are wound counter-clockwise
\* seen from the neighbor cell of their face
OutwardWinding(c) ==
  \A p \in ExposedFaces(c) :
    QuadCount(c.mesh, generate_face(VoxelAt(c, p[1]), p[2])) > 0 =>
      /\ CounterClockwise(generate_face(VoxelAt(c, p[1]), p[2]), 1, 2, 3, Neighbor(p[2], 0, 0, 0))
      /\ CounterClockwise(generate_face(VoxelAt(c, p[1]), p[2]), 1, 3, 4, Neighbor(p[2], 0, 0, 0))

\* C8: for each of the 6 face directions, both triangles (0,1,2) and (0,2,3) of every
\* emitted quad are wound counter-clockwise seen from outside: (v1-v0) x (v2-v0)
\* points to the neighbor cell of the face.
C8_OutwardWinding ==
  \A i \in DOMAIN chunks : OutwardWinding(chunks[i])

\* C9: generate_mesh replaces the cached mesh: a call on a chunk whose mesh was built
\* from its present grid leaves the chunk with the same vertices and indices, and no
\* call changes the grid.
C9_GenerateMeshIdempotent ==
  [][ret'.op = "generate_mesh" => chunks' = chunks]_vars

\* generate_mesh has been called again on a chunk that has faces
C9_Witness ==
  /\ ret.op = "generate_mesh"
  /\ \E i \in DOMAIN chunks :
       /\ chunks[i].position = ret.arg
       /\ \A j \in 1..(i - 1) : chunks[j].position # ret.arg
       /\ Len(chunks[i].mesh.vertices) > 0
       /\ chunks[i].mesh = MeshLoop(chunks[i], 0, TerrainMeshNew)

\* C10: when a column the chunk occupies (origin + local column) is missing from the
\* height map, Chunk::init aborts: it never completes with a height for that column
\* taken from elsewhere.
C10_MissingColumnAborts ==
  pc = "ready" =>
    \A x \in Xs, z \in Zs :
      <<chunks[1].position[1] + x, chunks[1].position[3] + z>> \in DOMAIN height_map

\* the indices of the chunks of cs whose origin is p
ChunksAt(cs, p) == {i \in DOMAIN cs : cs[i].position = p}

\* C11: get_chunk(p) and get_chunk_mut(p) return None when no chunk of the list has
\* origin p, and otherwise the first chunk in list order whose origin is p; neither
\* call changes the chunks or the merged-mesh cache.
C11_LookupFindsFirst ==
  [][ret'.op \in {"get_chunk", "get_chunk_mut"} =>
       /\ chunks' = chunks
       /\ calculated_mesh' = calculated_mesh
       /\ ChunksAt(chunks, ret'.arg) = {} => ret'.value = None
       /\ ChunksAt(chunks, ret'.arg) # {} =>
            \E i \in ChunksAt(chunks, ret'.arg) :
              /\ \A j \in ChunksAt(chunks, ret'.arg) : i <= j
              /\ ret'.value = Some(chunks[i])
              /\ ret'.value[1].position = ret'.arg]_vars

\* get_chunk_mut has returned the first of two different chunks with the same origin,
\* with a merged mesh in the cache
C11_Witness ==
  /\ ret.op = "get_chunk_mut"
  /\ calculated_mesh # None
  /\ \E i, j \in ChunksAt(chunks, ret.arg) :
       i < j /\ chunks[i] # chunks[j] /\ ret.value = Some(chunks[i])

\* C12: whatever the order in which the steps of the init calls of generate_chunks are
\* taken, a step of the init call of one chunk leaves the height map and every other
\* chunk as they are, and each chunk is, when its init call ends, the chunk the
\* sequential generate_chunks returns at that place.
C12_InitIndependent ==
  [][/\ height_map' = height_map
     /\ \A j \in DOMAIN chunks : pc'[j] = pc[j] => chunks'[j] = chunks[j]
     /\ Cardinality({j \in DOMAIN chunks : pc'[j] # pc[j]}) = 1
     /\ \A j \in DOMAIN chunks :
          (pc[j] # InitSteps /\ pc'[j] = InitSteps)
          => chunks'[j] = generate_chunks(ret.arg[1], ret.arg[2])[j]]_vars

\* a later chunk has ended its init call, with faces in its mesh, while the first chunk
\* is between two columns and another chunk has not begun
C12_Witness ==
  /\ ret.op = "generate_chunks"
  /\ Len(chunks) > 2
  /\ pc[1] > 0 /\ pc[1] < CHUNK_WIDTH * CHUNK_DEPTH
  /\ \E j \in DOMAIN chunks : pc[j] = 0
  /\ \E j \in DOMAIN chunks :
       /\ j > 1
       /\ pc[j] = InitSteps
       /\ Len(chunks[j].mesh.vertices) > 0
       /\ chunks[j] = generate_chunks(ret.arg[1], ret.arg[2])[j]

\* the cells of c that hold a non-Air voxel
SolidCells(c) == {cell \in Cells : VoxelAt(c, cell).block_type # "Air"}

\* cells a and b differ by one step along one axis
Adjacent(a, b) ==
  (a[1] - b[1]) * (a[1] - b[1]) + (a[2] - b[2]) * (a[2] - b[2])
    + (a[3] - b[3]) * (a[3] - b[3]) = 1

\* C13: generate_mesh on a grid whose only non-Air voxels are two voxels next to each
\* other along x, y or z, anywhere in the chunk, gives exactly 10 quads: 40 vertices
\* and 60 indices.
C13_AdjacentPairTenQuads ==
  (/\ ret.op = "generate_mesh"
   /\ Cardinality(SolidCells(chunks[1])) = 2
   /\ \A a, b \in SolidCells(chunks[1]) : a = b \/ Adjacent(a, b))
  => /\ Len(chunks[1].mesh.vertices) = 40
     /\ Len(chunks[1].mesh.indices) = 60

\* generate_mesh has meshed a Dirt voxel under a Grass voxel, both away from the floor of
\* the chunk, into 40 vertices
C13_Witness ==
  /\ ret.op = "generate_mesh"
  /\ SolidCells(chunks[1]) = {<<0, 1, 0>>, <<0, 2, 0>>}
  /\ VoxelAt(chunks[1], <<0, 1, 0>>).block_type = "Dirt"
  /\ VoxelAt(chunks[1], <<0, 2, 0>>).block_type = "Grass"
  /\ Len(chunks[1].mesh.vertices) = 40

\* C14: generate_mesh on a grid whose only non-Air voxel is one voxel, anywhere in the
\* chunk, gives exactly 6 quads, one of each face direction: 24 vertices, 36 indices,
\* every index below 24.
C14_SingleVoxelSixQuads ==
  (ret.op = "generate_mesh" /\ Cardinality(SolidCells(chunks[1])) = 1)
  => /\ Len(chunks[1].mesh.vertices) = 24
     /\ Len(chunks[1].mesh.indices) = 36
     /\ \A k \in DOMAIN chunks[1].mesh.indices :
          chunks[1].mesh.indices[k] >= 0 /\ chunks[1].mesh.indices[k] < 24
     /\ \A cell \in SolidCells(chunks[1]), face \in Face :
          QuadCount(chunks[1].mesh, generate_face(VoxelAt(chunks[1], cell), face)) = 1

\* generate_mesh has meshed a single Stone voxel that has Air below and above it
C14_Witness ==
  /\ ret.op = "generate_mesh"
  /\ SolidCells(chunks[1]) = {<<CHUNK_WIDTH - 1, 1, 0>>}
  /\ VoxelAt(chunks[1], <<CHUNK_WIDTH - 1, 1, 0>>).block_type = "Stone"
  /\ Len(chunks[1].mesh.indices) = 36

\* the chunk is the chunk of a 1 x 1 grid, populated from a height map over its
\* columns with heights in [0, HEIGHT_MAX]
SingleChunkGrid ==
  /\ pc = "ready"
  /\ Len(chunks) = 1
  /\ chunks[1].position = <<0, 0, 0>>
  /\ DOMAIN height_map = Xs \X Zs
  /\ \A key \in DOMAIN height_map : height_map[key] >= 0 /\ height_map[key] <= 4 * HEIGHT_MAX

\* C15: for the chunk of a 1 x 1 grid populated from any height map with heights in
\* [height_min, height_max], the chunk mesh is not empty and has 4 vertices and 6
\* indices per face, and the mesh merge_meshes or mesh returns for the list of that one
\* chunk has the vertices and indices of the chunk's own mesh.
C15_SingleChunkGrid ==
  SingleChunkGrid =>
    /\ Len(chunks[1].mesh.vertices) > 0
    /\ Len(chunks[1].mesh.vertices) % 4 = 0
    /\ Len(chunks[1].mesh.indices) % 6 = 0
    /\ Len(chunks[1].mesh.vertices) \div 4 = Len(chunks[1].mesh.indices) \div 6
    /\ ret.op \in {"merge_meshes", "mesh"} =>
         /\ ret.value[1].vertices = chunks[1].mesh.vertices
         /\ ret.value[1].indices = chunks[1].mesh.indices

\* mesh() has returned the merged mesh of a 1 x 1 grid whose columns differ in height
C15_Witness ==
  /\ SingleChunkGrid
  /\ ret.op = "mesh"
  /\ \E a, b \in DOMAIN height_map :
       HeightAsUsize(height_map[a]) # HeightAsUsize(height_map[b])
  /\ Len(ret.value[1].vertices) > 0
  /\ ret.value[1] = chunks[1].mesh

\* the atlas tile (column, row) of a block type and face
ExpectedTile(t, f) ==
  CASE t = "Grass" /\ f = "Top" -> <<0, 0>>
    [] t = "Grass" /\ f = "Bottom" -> <<2, 0>>
    [] t = "Grass" /\ f \in {"Left", "Right", "Front", "Back"} -> <<3, 0>>
    [] t = "Dirt" -> <<2, 0>>
    [] t = "Stone" -> <<1, 0>>

\* the corners (min,min), (max,min), (max,max), (min,max) of a tile, over 256
ExpectedCorners(tile) ==
  << <<tile[1] * 16, tile[2] * 16>>, <<(tile[1] + 1) * 16, tile[2] * 16>>,
     <<(tile[1] + 1) * 16, (tile[2] + 1) * 16>>, <<tile[1] * 16, (tile[2] + 1) * 16>> >>

\* the positions the corner order of a face is rotated by
ExpectedRotation(f) ==
  IF f \in {"Front", "Back"} THEN 2 ELSE IF f \in {"Left", "Right"} THEN 1 ELSE 0

\* the corner of uv that is least in both coordinates
MinCorner(uv) ==
  CHOOSE c \in {uv[k] : k \in 1..4} : \A k \in 1..4 : c[1] <= uv[k][1] /\ c[2] <= uv[k][2]

\* C16: the texture coordinates of a face of a Grass, Dirt or Stone block are the four
\* corners of its atlas tile (Grass top (0,0), Grass bottom (2,0), Grass sides (3,0),
\* Dirt (2,0), Stone (1,0)), tile (col, row) spanning col*16/256 .. (col+1)*16/256 and
\* row*16/256 .. (row+1)*16/256, in the order (min,min), (max,min), (max,max),
\* (min,max) rotated to the right by 2 places for Front and Back, by 1 place for Left
\* and Right and by none for Top and Bottom; the least corner is (0/256, 0/256) for
\* the top of Grass and (16/256, 0/256) for every face of Stone.
C16_AtlasLookup ==
  (ret.op = "generate_face" /\ ret.arg[1] # "Air") =>
    /\ \A k \in 1..4 :
         ret.value[k].tex_coords =
           ExpectedCorners(ExpectedTile(ret.arg[1], ret.arg[2]))
             [((k - 1 + 4 - ExpectedRotation(ret.arg[2])) % 4) + 1]
    /\ (ret.arg[1] = "Grass" /\ ret.arg[2] = "Top") =>
         MinCorner([k \in 1..4 |-> ret.value[k].tex_coords]) = <<0, 0>>
    /\ ret.arg[1] = "Stone" =>
         MinCorner([k \in 1..4 |-> ret.value[k].tex_coords]) = <<16, 0>>

\* generate_face has built the Left face of a Grass block: the corner order is rotated
\* by one place, so the first vertex has the (min,max) corner of tile (3, 0)
C16_Witness ==
  /\ ret.op = "generate_face"
  /\ ret.arg[1] = "Grass"
  /\ ret.arg[2] = "Left"
  /\ ret.value[1].tex_coords = <<48, 16>>
  /\ ret.value[2].tex_coords = <<48, 0>>

\* C17: the map generate_perlin_noise returns has exactly the keys of
\* [0, width) x [0, depth), and for noise values in [-1, 1] and height_min <=
\* height_max every height h of it, height_min + ((noise + 1) * 0.5) * (height_max -
\* height_min), satisfies height_min <= h <= height_max.
C17_HeightInRange ==
  ret.op = "generate_perlin_noise" =>
    /\ DOMAIN height_map = (0..(ret.arg[1] - 1)) \X (0..(ret.arg[2] - 1))
    /\ \A key \in DOMAIN height_map :
         /\ height_map[key] # F32_NAN
         /\ 4 * ret.arg[4] <= height_map[key]
         /\ height_map[key] <= 4 * ret.arg[5]

C19_CacheNeverReset ==
  [][/\ calculated_mesh # None => calculated_mesh' = calculated_mesh
     /\ calculated_mesh' # calculated_mesh => (calculated_mesh = None /\ ret'.op = "mesh")
     /\ (ret'.op = "mesh" /\ calculated_mesh # None) => ret'.value = calculated_mesh
     /\ ret'.op = "merge_meshes" =>
          /\ calculated_mesh' = calculated_mesh
          /\ ret'.value = Some(merge_meshes(chunks))]_vars

\* with a filled cache, a chunk with faces has been added and merge_meshes has
\* returned a mesh with that chunk in it, while the cache still holds the mesh without
\* it
C19_Witness ==
  /\ ret.op = "merge_meshes"
  /\ calculated_mesh # None
  /\ Len(chunks) > 1
  /\ Len(chunks[Len(chunks)].mesh.vertices) > 0
  /\ Len(ret.value[1].vertices) = VertexOffset(chunks, Len(chunks) + 1)
  /\ Len(calculated_mesh[1].vertices) = VertexOffset(chunks, Len(chunks))

\* the mesh of c is the face-culled mesh of the grid of c: the mesh generate_mesh
\* builds from the grid, with as many quads as there are faces of non-Air voxels whose
\* neighbor is out of bounds or Air
MeshMatchesGrid(c) ==
  /\ Len(c.mesh.vertices) = 4 * Cardinality(ExposedFaces(c))
  /\ Len(c.mesh.indices) = 6 * Cardinality(ExposedFaces(c))
  /\ c.mesh = MeshLoop(c, 0, TerrainMeshNew)

\* C20: after Chunk::new, after the init calls of generate_chunks and after every
\* generate_mesh call, the mesh of every chunk is the face-culled mesh of its present
\* grid; a chunk from Chunk::new is all Air and has 0 vertices and 0 indices.
C20_MeshMatchesGrid ==
  (pc = "ready" /\ ret.op \in {"none", "add_chunk", "generate_mesh"}) =>
    /\ \A i \in DOMAIN chunks : MeshMatchesGrid(chunks[i])
    /\ \A i \in DOMAIN spare : MeshMatchesGrid(spare[i])
    /\ \A p \in Positions :
         /\ SolidCells(ChunkNew(p)) = {}
         /\ ChunkNew(p).mesh.vertices = <<>>
         /\ ChunkNew(p).mesh.indices = <<>>

\* a chunk from Chunk::new, all Air and without faces, has been added to a list that
\* holds a populated chunk with faces
C20_Witness ==
  /\ ret.op = "add_chunk"
  /\ \E i \in DOMAIN chunks :
       /\ chunks[i] = ChunkNew(ret.arg)
       /\ Len(chunks[i].mesh.vertices) = 0
  /\ \E i \in DOMAIN chunks :
       /\ SolidCells(chunks[i]) # {}
       /\ Len(chunks[i].mesh.vertices) = 4 * Cardinality(ExposedFaces(chunks[i]))

====
